---- MODULE Spec2Model ----
(***************************************************************************)
(* A model of the generated Go client of the Dagger API                    *)
(* (sdk/go/dagger.gen.go) and of the needs/changelog workflow.  Modelled   *)
(* are:                                                                    *)
(*                                                                         *)
(*   - error classification: getCustomError and the ExecError methods,     *)
(*     as pure functions applied to a bounded set of errors (SpecErr);     *)
(*   - handles: the lazily built queries behind Client, Container, File,   *)
(*     Directory, EnvVariable, Module and TypeDef, with the builder        *)
(*     methods that allocate new handles and the accessors that execute a  *)
(*     query (Spec, SpecOpts, SpecArgs, SpecSession);                      *)
(*   - one run of the workflow's job for a pull_request event (SpecCI).    *)
(*                                                                         *)
(* A string is a sequence of symbols.  A literal the code only compares    *)
(* or concatenates as a whole ("EXEC_ERROR", "Stdout:") is one symbol;     *)
(* the strings whose characters the code inspects (strings.TrimSpace)      *)
(* are sequences of one-character symbols.                                 *)
(***************************************************************************)
EXTENDS Integers, Sequences, FiniteSets, TLC

VARIABLES
    input,   \* SpecErr: the error handed to getCustomError
    impl,    \* SpecErr: what this build's int(float64) yields out of range
    out,     \* SpecErr: what getCustomError returned (or that it panicked)
    text,    \* SpecErr: what the last ExecError method returned
    got,     \* SpecErr: what Message or Unwrap returned, if one was called
    heap,    \* Spec: the handles allocated so far, by address 1..Len(heap)
    last,    \* Spec: the last call: receiver, result, requests it sent
    served,  \* SpecSession: the serve queries the session has answered
    ci       \* SpecCI: a run of the needs/changelog workflow

errVars == <<input, impl, out, text, got>>
hVars == <<heap, last, served>>
vars == <<input, impl, out, text, got, heap, last, served, ci>>

(***************************************************************************)
(* Bounds of the model.                                                    *)
(***************************************************************************)
MaxStrLen == 2
MaxCmdLen == 2
MaxHandles == 4
MaxServed == 2

RECURSIVE SeqsUpTo(_, _)
SeqsUpTo(S, n) ==
    IF n = 0 THEN {<<>>}
    ELSE LET shorter == SeqsUpTo(S, n - 1)
         IN shorter \cup {Append(s, x) : s \in {t \in shorter : Len(t) = n - 1}, x \in S}

(***************************************************************************)
(* Part 1: error classification.                                           *)
(*                                                                         *)
(* A JSON value of the extension map, as encoding/json decodes it into     *)
(* map[string]interface{}: a missing key, a string, a float64 or a         *)
(* []interface{}.  A float64 is counted in halves (n = 3 is 1.5); huge     *)
(* marks a float64 outside the range of int.                               *)
(***************************************************************************)
Missing == [t |-> "missing", s |-> <<>>, n |-> 0, huge |-> FALSE, a |-> <<>>]
JStr(s) == [t |-> "string", s |-> s, n |-> 0, huge |-> FALSE, a |-> <<>>]
JNum(n) == [t |-> "number", s |-> <<>>, n |-> n, huge |-> FALSE, a |-> <<>>]
JHuge == [t |-> "number", s |-> <<>>, n |-> 0, huge |-> TRUE, a |-> <<>>]
JArr(a) == [t |-> "array", s |-> <<>>, n |-> 0, huge |-> FALSE, a |-> a]

\* the elements of a JSON array: a string or a number
EStr(s) == [t |-> "string", s |-> s]
ENum == [t |-> "number", s |-> <<>>]

NoExt == [type |-> Missing, exitCode |-> Missing, cmd |-> Missing,
          stdout |-> Missing, stderr |-> Missing]

\* An error is its chain of wrapped errors, outermost first.
PlainError(m) == <<[gql |-> FALSE, msg |-> m, ext |-> NoExt]>>
GqlError(m, ext) == <<[gql |-> TRUE, msg |-> m, ext |-> ext]>>
Wrapped(m, e) == <<[gql |-> FALSE, msg |-> m, ext |-> NoExt]>> \o e

\* errors.As(err, &gqlErr): the first *gqlerror.Error of the chain, 0 if none
RECURSIVE AsGqlFrom(_, _)
AsGqlFrom(err, i) ==
    IF i > Len(err) THEN 0
    ELSE IF err[i].gql THEN i
    ELSE AsGqlFrom(err, i + 1)

AsGql(err) == AsGqlFrom(err, 1)

\* err.Error() of the outermost error
ErrorString(err) == err[1].msg

\* int(code) for a float64: truncation toward zero; outside the range of int
\* the result is implementation-defined
IntOfFloat(v, implDefined) ==
    IF v.huge THEN implDefined
    ELSE IF v.n >= 0 THEN v.n \div 2
    ELSE -((-v.n) \div 2)

\* the index of the first element of args that is no string, 0 if all are
RECURSIVE FirstNonString(_, _)
FirstNonString(args, i) ==
    IF i > Len(args) THEN 0
    ELSE IF args[i].t # "string" THEN i
    ELSE FirstNonString(args, i + 1)

NilError == [kind |-> "nil", original |-> <<>>, Cmd |-> <<>>, ExitCode |-> 0,
             Stdout |-> <<>>, Stderr |-> <<>>]
Panicked == [kind |-> "panic", original |-> <<>>, Cmd |-> <<>>, ExitCode |-> 0,
             Stdout |-> <<>>, Stderr |-> <<>>]
NotCalled == [kind |-> "none", original |-> <<>>, Cmd |-> <<>>, ExitCode |-> 0,
              Stdout |-> <<>>, Stderr |-> <<>>]

\* neither Message nor Unwrap has been called
NoResult == [method |-> "", str |-> <<>>, err |-> <<>>]

\* mutant: every string "_type" is taken for an exec error
getCustomErrorAnyType(err, implDefined) ==
    LET g == AsGql(err) IN
    IF g = 0 THEN NilError
    ELSE LET ext == err[g].ext IN
         IF ext.type.t # "string" THEN NilError
         ELSE [kind |-> "ExecError", original |-> err, Cmd |-> <<>>,
               ExitCode |-> 0, Stdout |-> <<>>, Stderr |-> <<>>]

\* mutant: stdout and stderr are filled from each other's key
getCustomErrorSwapped(err, implDefined) ==
    LET g == AsGql(err) IN
    IF g = 0 THEN NilError
    ELSE LET ext == err[g].ext IN
         IF ext.type.t # "string" THEN NilError
         ELSE IF ext.type.s # <<"EXEC_ERROR">> THEN NilError
         ELSE IF ext.cmd.t = "array" /\ FirstNonString(ext.cmd.a, 1) # 0
              THEN Panicked
         ELSE [kind |-> "ExecError",
               original |-> err,
               ExitCode |-> IF ext.exitCode.t = "number"
                            THEN IntOfFloat(ext.exitCode, implDefined) ELSE 0,
               Cmd |-> IF ext.cmd.t = "array"
                       THEN [i \in 1..Len(ext.cmd.a) |-> ext.cmd.a[i].s] ELSE <<>>,
               Stdout |-> IF ext.stderr.t = "string" THEN ext.stderr.s ELSE <<>>,
               Stderr |-> IF ext.stdout.t = "string" THEN ext.stdout.s ELSE <<>>]

\* getCustomError parses a GraphQL error into a more specific error type.
getCustomError(err, implDefined) ==
    LET g == AsGql(err) IN
    IF g = 0 THEN NilError
    ELSE LET ext == err[g].ext IN
         IF ext.type.t # "string" THEN NilError
         ELSE IF ext.type.s # <<"EXEC_ERROR">> THEN NilError
         \* cmd[i] = v.(string) panics on the first element that is no string
         ELSE IF ext.cmd.t = "array" /\ FirstNonString(ext.cmd.a, 1) # 0
              THEN Panicked
         ELSE [kind |-> "ExecError",
               original |-> err,
               ExitCode |-> IF ext.exitCode.t = "number"
                            THEN IntOfFloat(ext.exitCode, implDefined) ELSE 0,
               Cmd |-> IF ext.cmd.t = "array"
                       THEN [i \in 1..Len(ext.cmd.a) |-> ext.cmd.a[i].s] ELSE <<>>,
               Stdout |-> IF ext.stdout.t = "string" THEN ext.stdout.s ELSE <<>>,
               Stderr |-> IF ext.stderr.t = "string" THEN ext.stderr.s ELSE <<>>]

\* unicode.IsSpace on the characters of the model
IsSpace(c) == c \in {" ", "\t", "\n", "\r"}

\* strings.TrimSpace: strip the leading, then the trailing white space
RECURSIVE TrimLeft(_)
TrimLeft(s) ==
    IF s = <<>> THEN s
    ELSE IF IsSpace(Head(s)) THEN TrimLeft(Tail(s))
    ELSE s

RECURSIVE TrimRight(_)
TrimRight(s) ==
    IF s = <<>> THEN s
    ELSE IF IsSpace(s[Len(s)]) THEN TrimRight(SubSeq(s, 1, Len(s) - 1))
    ELSE s

TrimSpace(s) == TrimRight(TrimLeft(s))

\* ExecError.Message
Message(e) == ErrorString(e.original)

\* mutant: what is unwrapped is the GraphQL error found in the chain
UnwrapGql(e) == SubSeq(e.original, AsGql(e.original), Len(e.original))

\* ExecError.Unwrap
Unwrap(e) == e.original

StdoutHeader == <<"\n", "Stdout:", "\n">>
StderrHeader == <<"\n", "Stderr:", "\n">>

\* mutant: a stream is shown unless it is empty, white space included
ErrorNoTrim(e) ==
    LET m0 == Message(e)
        m1 == IF e.Stdout # <<>> THEN m0 \o StdoutHeader \o e.Stdout ELSE m0
    IN IF e.Stderr # <<>> THEN m1 \o StderrHeader \o e.Stderr ELSE m1

\* ExecError.Error
Error(e) ==
    LET m0 == Message(e)
        m1 == IF TrimSpace(e.Stdout) # <<>>
              THEN m0 \o StdoutHeader \o e.Stdout ELSE m0
    IN IF TrimSpace(e.Stderr) # <<>>
       THEN m1 \o StderrHeader \o e.Stderr ELSE m1

(***************************************************************************)
(* The errors getCustomError is applied to.                                *)
(***************************************************************************)
Chars == {" ", "o"}
Strings == SeqsUpTo(Chars, MaxStrLen)
Messages == {<<"m">>}
TypeValues == {Missing, JNum(2), JStr(<<"EXEC_ERROR">>), JStr(<<"OTHER">>)}
ExitCodeValues == {Missing, JStr(<<"o">>), JNum(2), JNum(3), JNum(-3), JHuge}
CmdValues ==
    {Missing, JStr(<<"o">>), JArr(<<ENum>>), JArr(<<EStr(<<"a">>), ENum>>),
     JArr(<<ENum, EStr(<<"a">>)>>)}
        \cup {JArr(a) : a \in SeqsUpTo({EStr(<<"a">>), EStr(<<"b">>)}, MaxCmdLen)}
StdoutValues == {Missing, JNum(2)} \cup {JStr(s) : s \in Strings}
StderrValues ==
    {Missing, JNum(2), JStr(<<>>), JStr(<<" ">>), JStr(<<"o">>), JStr(<<" ", "o">>)}
ImplDefinedInts == {-1, 0}

ExecExtensions ==
    [type : {JStr(<<"EXEC_ERROR">>)}, exitCode : ExitCodeValues, cmd : CmdValues,
     stdout : StdoutValues, stderr : StderrValues]

\* extensions of another kind: what they carry besides "_type" is never read
OtherExtensions ==
    [type : TypeValues \ {JStr(<<"EXEC_ERROR">>)}, exitCode : {Missing, JNum(2)},
     cmd : {Missing, JArr(<<ENum>>)}, stdout : {Missing, JStr(<<"o">>)},
     stderr : {Missing}]

Extensions == ExecExtensions \cup OtherExtensions

Errors ==
    {PlainError(m) : m \in Messages}
        \cup {GqlError(m, x) : m \in Messages, x \in Extensions}
        \cup {Wrapped(<<"w">>, GqlError(m, x)) : m \in Messages, x \in Extensions}
        \cup {Wrapped(<<"w">>, PlainError(m)) : m \in Messages}

InitErr ==
    /\ input \in Errors
    /\ impl \in ImplDefinedInts
    /\ out = NotCalled
    /\ text = <<>>
    /\ got = NoResult

\* out := getCustomError(input)
CallGetCustomError ==
    /\ out.kind = "none"
    /\ out' = getCustomError(input, impl)
    /\ UNCHANGED <<input, impl, text, got>>

\* text := out.Error()
CallError ==
    /\ out.kind = "ExecError"
    /\ text = <<>>
    /\ got = NoResult
    /\ text' = Error(out)
    /\ UNCHANGED <<input, impl, out, got>>

\* got := out.Message()
CallMessage ==
    /\ out.kind = "ExecError"
    /\ text = <<>>
    /\ got = NoResult
    /\ got' = [method |-> "Message", str |-> Message(out), err |-> <<>>]
    /\ UNCHANGED <<input, impl, out, text>>

\* got := out.Unwrap()
CallUnwrap ==
    /\ out.kind = "ExecError"
    /\ text = <<>>
    /\ got = NoResult
    /\ got' = [method |-> "Unwrap", str |-> <<>>, err |-> Unwrap(out)]
    /\ UNCHANGED <<input, impl, out, text>>

(***************************************************************************)
(* Part 2: handles.                                                        *)
(*                                                                         *)
(* The value of a query argument.  ss holds a string or a list of          *)
(* strings, b a bool, refs an int, a handle (its address, 0 for a nil      *)
(* pointer) or a list of handles.                                          *)
(***************************************************************************)
StrV(s) == [kind |-> "string", ss |-> <<s>>, b |-> FALSE, refs |-> <<>>]
BoolV(b) == [kind |-> "bool", ss |-> <<>>, b |-> b, refs |-> <<>>]
IntV(n) == [kind |-> "int", ss |-> <<>>, b |-> FALSE, refs |-> <<n>>]
StrListV(ss) == [kind |-> "strings", ss |-> ss, b |-> FALSE, refs |-> <<>>]
HandleV(r) == [kind |-> "handle", ss |-> <<>>, b |-> FALSE, refs |-> <<r>>]
HandleListV(rs) == [kind |-> "handles", ss |-> <<>>, b |-> FALSE, refs |-> rs]

\* querybuilder.IsZeroValue: the zero value of the argument's type
IsZeroValue(v) ==
    CASE v.kind = "string" -> v.ss[1] = ""
      [] v.kind = "bool" -> ~v.b
      [] v.kind = "int" -> v.refs[1] = 0
      [] v.kind = "strings" -> v.ss = <<>>
      [] v.kind = "handle" -> v.refs[1] = 0
      [] v.kind = "handles" -> v.refs = <<>>

\* querybuilder.Query(): the empty selection
Query == <<>>

\* Selection.Select: a new selection after those of q; q is left as it is
Select(q, name) == Append(q, [name |-> name, args |-> <<>>])

RECURSIVE ArgIndex(_, _, _)
ArgIndex(args, name, i) ==
    IF i > Len(args) THEN 0
    ELSE IF args[i].name = name THEN i
    ELSE ArgIndex(args, name, i + 1)

\* Selection.Arg: name bound to v in the last selection of a copy of q, in
\* the place of an earlier binding of name
Arg(q, name, v) ==
    LET sel == q[Len(q)]
        k == ArgIndex(sel.args, name, 1)
        args == IF k = 0 THEN Append(sel.args, [name |-> name, value |-> v])
                ELSE [sel.args EXCEPT ![k] = [name |-> name, value |-> v]]
    IN [q EXCEPT ![Len(q)] = [name |-> sel.name, args |-> args]]

\* if !querybuilder.IsZeroValue(v) { q = q.Arg(name, v) }
OptArg(q, name, v) == IF IsZeroValue(v) THEN q ELSE Arg(q, name, v)

\* &T{Query: q, Client: client}: every cached field is nil
NewHandle(typ, q, client) ==
    [typ |-> typ, Query |-> q, Client |-> client, id |-> <<>>, stdout |-> <<>>,
     serve |-> <<>>]

(***************************************************************************)
(* What a call did: the heap it leaves, the handle (ret), value (val) or   *)
(* handles (list) it returned, its error, whether it panicked and with     *)
(* what, and the requests it sent to the endpoint, in order.  Of a call    *)
(* that executed a query: the error Execute returned (execErr) and what    *)
(* the response bound (resp).  isList tells a list that is not nil (it may *)
(* be empty) from the nil list.                                            *)
(***************************************************************************)
Outcome(hp) ==
    [heap |-> hp, ret |-> 0, val |-> <<>>, list |-> <<>>, isList |-> FALSE,
     err |-> "", execErr |-> "", resp |-> <<>>,
     panic |-> "", panicArg |-> "", sent |-> <<>>]

\* return &T{Query: q, Client: client}
Return(hp, typ, q, client) ==
    [Outcome(Append(hp, NewHandle(typ, q, client))) EXCEPT !.ret = Len(hp) + 1]

\* assertNotNil(argName, value): whether it panics
assertNotNil(argName, value) == value = 0

\* panic(fmt.Sprintf("unexpected nil pointer for argument %q", argName))
NilArgPanic(hp, argName) ==
    [Outcome(hp) EXCEPT !.panic = "unexpected nil pointer for argument",
                        !.panicArg = argName]

(***************************************************************************)
(* Execution.  A run is what one accessor call has done so far: the        *)
(* requests sent, in order, and whether it goes on ("ok"), has got an      *)
(* error from the endpoint ("error", the error being err) or has panicked  *)
(* ("panic").  The endpoint is srv: fail is the number of the request it   *)
(* answers with the error err (0: none), nilJSON what serializing a nil    *)
(* handle does in this build, id, str and ids what it answers to the       *)
(* accessor's own request.                                                 *)
(***************************************************************************)
StartRun == [sent |-> <<>>, status |-> "ok", err |-> ""]

\* the handles among the arguments of q, in the order of the query
RECURSIVE HandleRefs(_)
HandleRefs(q) ==
    IF q = <<>> THEN <<>>
    ELSE LET RECURSIVE OfArgs(_)
             OfArgs(args) ==
                 IF args = <<>> THEN <<>>
                 ELSE (IF Head(args).value.kind \in {"handle", "handles"}
                       THEN Head(args).value.refs ELSE <<>>) \o OfArgs(Tail(args))
         IN OfArgs(Head(q).args) \o HandleRefs(Tail(q))

\* one request to the endpoint
Send(q, client, srv, run) ==
    LET sent == Append(run.sent, [query |-> q, client |-> client])
    IN [sent |-> sent,
        status |-> IF Len(sent) = srv.fail THEN "error" ELSE "ok",
        err |-> IF Len(sent) = srv.fail THEN srv.err ELSE ""]

RECURSIVE Execute(_, _, _, _, _)
RECURSIVE MarshalRefs(_, _, _, _)

\* mutant: the id of a handle is serialized without asking for it
MarshalJSONNoRequest(hp, r, srv, run) == run

\* (r *T) MarshalJSON: r.ID(context.Background()), by which Execute
\* serializes a handle argument; on a nil pointer r.id is a nil dereference
\* where the build calls the method, "null" where it does not
MarshalJSON(hp, r, srv, run) ==
    IF run.status # "ok" THEN run
    ELSE IF r = 0
         THEN (IF srv.nilJSON = "panic" THEN [run EXCEPT !.status = "panic"] ELSE run)
    ELSE IF hp[r].id # <<>> THEN run
    ELSE Execute(hp, Select(hp[r].Query, "id"), hp[r].Client, srv, run)

MarshalRefs(hp, refs, srv, run) ==
    IF refs = <<>> THEN run
    ELSE MarshalRefs(hp, Tail(refs), srv, MarshalJSON(hp, Head(refs), srv, run))

\* Selection.Execute: serialize the arguments of the query, then send it
Execute(hp, q, client, srv, run) ==
    IF run.status # "ok" THEN run
    ELSE LET marshalled == MarshalRefs(hp, HandleRefs(q), srv, run)
         IN IF marshalled.status # "ok" THEN marshalled
            ELSE Send(q, client, srv, marshalled)

\* what an accessor returns once its query has run: v and no error, or the
\* zero value and the error, or nothing when its goroutine panicked
Returned(hp, run, v) ==
    [Outcome(hp) EXCEPT
        !.val = IF run.status = "ok" THEN <<v>> ELSE <<>>,
        !.resp = IF run.status = "ok" THEN <<v>> ELSE <<>>,
        !.err = run.err,
        !.execErr = run.err,
        !.panic = IF run.status = "panic" THEN "nil pointer dereference" ELSE "",
        !.sent = run.sent]

(***************************************************************************)
(* The methods.  hp is the heap, r the address of the receiver.            *)
(***************************************************************************)
LoadField(T) == "load" \o T \o "FromID"

\* mutant: the handle is returned with its id cached
LoadFromIDCached(hp, r, T, id) ==
    LET q == Arg(Select(hp[r].Query, LoadField(T)), "id", StrV(id))
    IN [Outcome(Append(hp, [NewHandle(T, q, hp[r].Client) EXCEPT !.id = <<id>>]))
           EXCEPT !.ret = Len(hp) + 1]

\* Client.LoadContainerFromID, LoadFileFromID, LoadDirectoryFromID, ...
LoadFromID(hp, r, T, id) ==
    LET q0 == Select(hp[r].Query, LoadField(T))
        q == Arg(q0, "id", StrV(id))
    IN Return(hp, T, q, hp[r].Client)

ZeroContainerOpts == [ID |-> "", Platform |-> ""]

RECURSIVE ContainerOptArgs(_, _, _)
ContainerOptArgs(q, opts, i) ==
    IF i < 1 THEN q
    ELSE LET q1 == OptArg(q, "id", StrV(opts[i].ID))
             q2 == OptArg(q1, "platform", StrV(opts[i].Platform))
         IN ContainerOptArgs(q2, opts, i - 1)

\* Client.Container
ClientContainer(hp, r, opts) ==
    LET q == ContainerOptArgs(Select(hp[r].Query, "container"), opts, Len(opts))
    IN Return(hp, "Container", q, hp[r].Client)

\* mutant: the selection is made on the receiver's own query
FromInPlace(hp, r, address) ==
    LET q == Arg(Select(hp[r].Query, "from"), "address", StrV(address))
    IN Return([hp EXCEPT ![r].Query = q], "Container", q, hp[r].Client)

\* Container.From
From(hp, r, address) ==
    LET q0 == Select(hp[r].Query, "from")
        q == Arg(q0, "address", StrV(address))
    IN Return(hp, "Container", q, hp[r].Client)

ZeroWithEnvVariableOpts == [Expand |-> FALSE]

RECURSIVE WithEnvVariableOptArgs(_, _, _)
WithEnvVariableOptArgs(q, opts, i) ==
    IF i < 1 THEN q
    ELSE WithEnvVariableOptArgs(OptArg(q, "expand", BoolV(opts[i].Expand)), opts, i - 1)

\* mutant: the value of the variable is left out of the query
WithEnvVariableNoValue(hp, r, name, value, opts) ==
    LET q0 == WithEnvVariableOptArgs(Select(hp[r].Query, "withEnvVariable"),
                                     opts, Len(opts))
        q == Arg(q0, "name", StrV(name))
    IN Return(hp, "Container", q, hp[r].Client)

\* Container.WithEnvVariable
WithEnvVariable(hp, r, name, value, opts) ==
    LET q0 == WithEnvVariableOptArgs(Select(hp[r].Query, "withEnvVariable"),
                                     opts, Len(opts))
        q1 == Arg(q0, "name", StrV(name))
        q == Arg(q1, "value", StrV(value))
    IN Return(hp, "Container", q, hp[r].Client)

ZeroWithExecOpts ==
    [SkipEntrypoint |-> FALSE, Stdin |-> "", RedirectStdout |-> "",
     RedirectStderr |-> "", ExperimentalPrivilegedNesting |-> FALSE,
     InsecureRootCapabilities |-> FALSE]

\* mutant: the options structs are applied from the first to the last
RECURSIVE WithExecOptArgsForward(_, _, _)
WithExecOptArgsForward(q, opts, i) ==
    IF i < 1 THEN q
    ELSE LET o == opts[i]
             q0 == WithExecOptArgsForward(q, opts, i - 1)
             q1 == OptArg(q0, "skipEntrypoint", BoolV(o.SkipEntrypoint))
             q2 == OptArg(q1, "stdin", StrV(o.Stdin))
             q3 == OptArg(q2, "redirectStdout", StrV(o.RedirectStdout))
             q4 == OptArg(q3, "redirectStderr", StrV(o.RedirectStderr))
             q5 == OptArg(q4, "experimentalPrivilegedNesting",
                          BoolV(o.ExperimentalPrivilegedNesting))
         IN OptArg(q5, "insecureRootCapabilities", BoolV(o.InsecureRootCapabilities))

RECURSIVE WithExecOptArgs(_, _, _)
WithExecOptArgs(q, opts, i) ==
    IF i < 1 THEN q
    ELSE LET o == opts[i]
             q1 == OptArg(q, "skipEntrypoint", BoolV(o.SkipEntrypoint))
             q2 == OptArg(q1, "stdin", StrV(o.Stdin))
             q3 == OptArg(q2, "redirectStdout", StrV(o.RedirectStdout))
             q4 == OptArg(q3, "redirectStderr", StrV(o.RedirectStderr))
             q5 == OptArg(q4, "experimentalPrivilegedNesting",
                          BoolV(o.ExperimentalPrivilegedNesting))
             q6 == OptArg(q5, "insecureRootCapabilities",
                          BoolV(o.InsecureRootCapabilities))
         IN WithExecOptArgs(q6, opts, i - 1)

\* mutant: stdin is attached whatever its value
WithExecStdinAlways(hp, r, args, opts) ==
    LET q0 == WithExecOptArgs(Select(hp[r].Query, "withExec"), opts, Len(opts))
        q1 == IF opts # <<>> /\ ArgIndex(q0[Len(q0)].args, "stdin", 1) = 0
              THEN Arg(q0, "stdin", StrV(opts[1].Stdin)) ELSE q0
        q == Arg(q1, "args", StrListV(args))
    IN Return(hp, "Container", q, hp[r].Client)

\* mutant: the command is run as soon as it is added
WithExecEager(hp, r, args, opts) ==
    LET q0 == WithExecOptArgs(Select(hp[r].Query, "withExec"), opts, Len(opts))
        q == Arg(q0, "args", StrListV(args))
    IN [Return(hp, "Container", q, hp[r].Client)
           EXCEPT !.sent = <<[query |-> q, client |-> hp[r].Client]>>]

\* Container.WithExec
WithExec(hp, r, args, opts) ==
    LET q0 == WithExecOptArgs(Select(hp[r].Query, "withExec"), opts, Len(opts))
        q == Arg(q0, "args", StrListV(args))
    IN Return(hp, "Container", q, hp[r].Client)

ZeroAsTarballOpts ==
    [PlatformVariants |-> <<>>, ForcedCompression |-> "", MediaTypes |-> ""]

RECURSIVE AsTarballOptArgs(_, _, _)
AsTarballOptArgs(q, opts, i) ==
    IF i < 1 THEN q
    ELSE LET o == opts[i]
             q1 == OptArg(q, "platformVariants", HandleListV(o.PlatformVariants))
             q2 == OptArg(q1, "forcedCompression", StrV(o.ForcedCompression))
             q3 == OptArg(q2, "mediaTypes", StrV(o.MediaTypes))
         IN AsTarballOptArgs(q3, opts, i - 1)

\* Container.AsTarball
AsTarball(hp, r, opts) ==
    LET q == AsTarballOptArgs(Select(hp[r].Query, "asTarball"), opts, Len(opts))
    IN Return(hp, "File", q, hp[r].Client)

ZeroWithDirectoryOpts == [Exclude |-> <<>>, Include |-> <<>>, Owner |-> ""]

RECURSIVE WithDirectoryOptArgs(_, _, _)
WithDirectoryOptArgs(q, opts, i) ==
    IF i < 1 THEN q
    ELSE LET o == opts[i]
             q1 == OptArg(q, "exclude", StrListV(o.Exclude))
             q2 == OptArg(q1, "include", StrListV(o.Include))
             q3 == OptArg(q2, "owner", StrV(o.Owner))
         IN WithDirectoryOptArgs(q3, opts, i - 1)

\* Container.WithDirectory
WithDirectory(hp, r, path, directory, opts) ==
    IF assertNotNil("directory", directory) THEN NilArgPanic(hp, "directory")
    ELSE LET q0 == WithDirectoryOptArgs(Select(hp[r].Query, "withDirectory"),
                                        opts, Len(opts))
             q1 == Arg(q0, "path", StrV(path))
             q == Arg(q1, "directory", HandleV(directory))
         IN Return(hp, "Container", q, hp[r].Client)

ZeroWithFileOpts == [Permissions |-> 0, Owner |-> ""]

RECURSIVE WithFileOptArgs(_, _, _)
WithFileOptArgs(q, opts, i) ==
    IF i < 1 THEN q
    ELSE LET o == opts[i]
             q1 == OptArg(q, "permissions", IntV(o.Permissions))
             q2 == OptArg(q1, "owner", StrV(o.Owner))
         IN WithFileOptArgs(q2, opts, i - 1)

\* Container.WithFile
WithFile(hp, r, path, source, opts) ==
    IF assertNotNil("source", source) THEN NilArgPanic(hp, "source")
    ELSE LET q0 == WithFileOptArgs(Select(hp[r].Query, "withFile"), opts, Len(opts))
             q1 == Arg(q0, "path", StrV(path))
             q == Arg(q1, "source", HandleV(source))
         IN Return(hp, "Container", q, hp[r].Client)

\* Container.WithFiles: the options are those of WithFile
WithFiles(hp, r, path, sources, opts) ==
    LET q0 == WithFileOptArgs(Select(hp[r].Query, "withFiles"), opts, Len(opts))
        q1 == Arg(q0, "path", StrV(path))
        q == Arg(q1, "sources", HandleListV(sources))
    IN Return(hp, "Container", q, hp[r].Client)

ZeroPipelineOpts == [Description |-> "", Labels |-> <<>>]

RECURSIVE PipelineOptArgs(_, _, _)
PipelineOptArgs(q, opts, i) ==
    IF i < 1 THEN q
    ELSE LET q1 == OptArg(q, "description", StrV(opts[i].Description))
             q2 == OptArg(q1, "labels", StrListV(opts[i].Labels))
         IN PipelineOptArgs(q2, opts, i - 1)

\* mutant: the sub-pipeline is given the transport of the first session
PipelineFirstClient(hp, r, name, opts) ==
    LET q0 == PipelineOptArgs(Select(hp[r].Query, "pipeline"), opts, Len(opts))
        q == Arg(q0, "name", StrV(name))
    IN Return(hp, "Client", q, hp[1].Client)

\* Client.Pipeline
Pipeline(hp, r, name, opts) ==
    LET q0 == PipelineOptArgs(Select(hp[r].Query, "pipeline"), opts, Len(opts))
        q == Arg(q0, "name", StrV(name))
    IN Return(hp, "Client", q, hp[r].Client)

\* Client.Module
ClientModule(hp, r) ==
    Return(hp, "Module", Select(hp[r].Query, "module"), hp[r].Client)

\* mutant: the response is kept in the handle
ServeCaching(hp, r, srv) ==
    IF hp[r].serve # <<>>
    THEN [Outcome(hp) EXCEPT !.val = <<hp[r].serve[1]>>]
    ELSE LET q == Select(hp[r].Query, "serve")
             res == Returned(hp, Execute(hp, q, hp[r].Client, srv, StartRun), "")
         IN IF res.err # "" \/ res.panic # "" THEN res
            ELSE [res EXCEPT !.heap = [hp EXCEPT ![r].serve = <<"">>]]

\* Module.Serve; its two progrock lines only log
Serve(hp, r, srv) ==
    IF hp[r].serve # <<>>
    THEN [Outcome(hp) EXCEPT !.val = <<hp[r].serve[1]>>]
    ELSE LET q == Select(hp[r].Query, "serve")
         IN Returned(hp, Execute(hp, q, hp[r].Client, srv, StartRun), "")

\* mutant: the id is asked for whether it is cached or not
IDAlwaysAsks(hp, r, srv) ==
    LET q == Select(hp[r].Query, "id")
    IN Returned(hp, Execute(hp, q, hp[r].Client, srv, StartRun), srv.id)

\* (r *T) ID
ID(hp, r, srv) ==
    IF hp[r].id # <<>>
    THEN [Outcome(hp) EXCEPT !.val = <<hp[r].id[1]>>]
    ELSE LET q == Select(hp[r].Query, "id")
         IN Returned(hp, Execute(hp, q, hp[r].Client, srv, StartRun), srv.id)

\* (r *T) XXX_GraphQLID: string(id), the characters of the id
XXX_GraphQLID(hp, r, srv) ==
    LET res == ID(hp, r, srv)
    IN IF res.err # "" \/ res.panic # "" THEN [res EXCEPT !.val = <<>>]
       ELSE [res EXCEPT !.val = <<res.val[1]>>]

\* json.Marshal of a string without characters to escape
JSONString(str) == <<"\"", str, "\"">>

\* (r *T) MarshalJSON, called by the user: r.ID(context.Background()), then
\* json.Marshal(id)
MarshalJSONBytes(hp, r, srv) ==
    LET res == ID(hp, r, srv)
    IN IF res.err # "" \/ res.panic # "" THEN [res EXCEPT !.val = <<>>]
       ELSE [res EXCEPT !.val = <<JSONString(res.val[1])>>]

\* Container.Stdout
Stdout(hp, r, srv) ==
    IF hp[r].stdout # <<>>
    THEN [Outcome(hp) EXCEPT !.val = <<hp[r].stdout[1]>>]
    ELSE LET q == Select(hp[r].Query, "stdout")
         IN Returned(hp, Execute(hp, q, hp[r].Client, srv, StartRun), srv.str)

\* mutant: the handle returned is a new one, with the selection sync
SyncNewHandle(hp, r, srv) ==
    LET q == Select(hp[r].Query, "sync")
        res == Returned(hp, Execute(hp, q, hp[r].Client, srv, StartRun), "")
    IN IF res.panic # "" THEN [res EXCEPT !.val = <<>>, !.resp = <<>>]
       ELSE [res EXCEPT !.val = <<>>, !.resp = <<>>,
                        !.heap = Append(hp, NewHandle(hp[r].typ, q, hp[r].Client)),
                        !.ret = Len(hp) + 1]

\* Container.Sync: return r, q.Execute(ctx, r.Client)
Sync(hp, r, srv) ==
    LET q == Select(hp[r].Query, "sync")
        res == Returned(hp, Execute(hp, q, hp[r].Client, srv, StartRun), "")
    IN [res EXCEPT !.val = <<>>, !.resp = <<>>,
                   !.ret = IF res.panic = "" THEN r ELSE 0]

\* mutant: the handles are made from the last id of the response to the first
RECURSIVE convertReversed(_, _, _)
convertReversed(hp, client, fields) ==
    IF fields = <<>> THEN hp
    ELSE LET n == Len(fields)
             q == Arg(Select(Query, "loadEnvVariableFromID"), "id", StrV(fields[n]))
             val == [NewHandle("EnvVariable", q, client) EXCEPT !.id = <<fields[n]>>]
         IN convertReversed(Append(hp, val), client, SubSeq(fields, 1, n - 1))

\* convert, in Container.EnvVariables: one EnvVariable per id of the response
RECURSIVE convert(_, _, _)
convert(hp, client, fields) ==
    IF fields = <<>> THEN hp
    ELSE LET q == Arg(Select(Query, "loadEnvVariableFromID"), "id", StrV(Head(fields)))
             val == [NewHandle("EnvVariable", q, client) EXCEPT !.id = <<Head(fields)>>]
         IN convert(Append(hp, val), client, Tail(fields))

\* mutant: a failed execution yields an empty list and no error
EnvVariablesSwallow(hp, r, srv) ==
    LET q == Select(Select(hp[r].Query, "envVariables"), "id")
        run == Execute(hp, q, hp[r].Client, srv, StartRun)
        res == [Returned(hp, run, srv.ids) EXCEPT !.val = <<>>]
    IN IF run.status = "panic" THEN res
       ELSE IF run.status = "error" THEN [res EXCEPT !.err = "", !.isList = TRUE]
       ELSE [res EXCEPT !.heap = convert(hp, hp[r].Client, srv.ids),
                        !.list = [i \in 1..Len(srv.ids) |-> Len(hp) + i],
                        !.isList = TRUE]

\* Container.EnvVariables
EnvVariables(hp, r, srv) ==
    LET q == Select(Select(hp[r].Query, "envVariables"), "id")
        run == Execute(hp, q, hp[r].Client, srv, StartRun)
        res == [Returned(hp, run, srv.ids) EXCEPT !.val = <<>>]
    IN IF run.status # "ok" THEN res
       ELSE [res EXCEPT !.heap = convert(hp, hp[r].Client, srv.ids),
                        !.list = [i \in 1..Len(srv.ids) |-> Len(hp) + i],
                        !.isList = TRUE]

\* convert, in Client.CurrentTypeDefs: one TypeDef per id of the response
RECURSIVE convertTypeDefs(_, _, _)
convertTypeDefs(hp, client, fields) ==
    IF fields = <<>> THEN hp
    ELSE LET q == Arg(Select(Query, "loadTypeDefFromID"), "id", StrV(Head(fields)))
             val == [NewHandle("TypeDef", q, client) EXCEPT !.id = <<Head(fields)>>]
         IN convertTypeDefs(Append(hp, val), client, Tail(fields))

\* mutant: the handles of the list are selected under the receiver's query
CurrentTypeDefsNested(hp, r, srv) ==
    LET q == Select(Select(hp[r].Query, "currentTypeDefs"), "id")
        run == Execute(hp, q, hp[r].Client, srv, StartRun)
        res == [Returned(hp, run, srv.ids) EXCEPT !.val = <<>>]
        made == [i \in 1..Len(srv.ids) |->
                    [NewHandle("TypeDef",
                               Arg(Select(hp[r].Query, "loadTypeDefFromID"),
                                   "id", StrV(srv.ids[i])),
                               hp[r].Client) EXCEPT !.id = <<srv.ids[i]>>]]
    IN IF run.status # "ok" THEN res
       ELSE [res EXCEPT !.heap = hp \o made,
                        !.list = [i \in 1..Len(srv.ids) |-> Len(hp) + i],
                        !.isList = TRUE]

\* Client.CurrentTypeDefs
CurrentTypeDefs(hp, r, srv) ==
    LET q == Select(Select(hp[r].Query, "currentTypeDefs"), "id")
        run == Execute(hp, q, hp[r].Client, srv, StartRun)
        res == [Returned(hp, run, srv.ids) EXCEPT !.val = <<>>]
    IN IF run.status # "ok" THEN res
       ELSE [res EXCEPT !.heap = convertTypeDefs(hp, hp[r].Client, srv.ids),
                        !.list = [i \in 1..Len(srv.ids) |-> Len(hp) + i],
                        !.isList = TRUE]

(***************************************************************************)
(* The program: calls made one after the other on the handles allocated    *)
(* so far, with inputs from small sets.                                    *)
(***************************************************************************)
IDs == {"id1", "id2"}
LoadInputs == {<<"Container", "id1">>, <<"File", "id2">>, <<"Directory", "id1">>}
ContainerOptsInputs ==
    {<<>>, <<[ZeroContainerOpts EXCEPT !.Platform = "linux/amd64"]>>}
WithEnvVariableOptsInputs ==
    {<<ZeroWithEnvVariableOpts>>, <<[Expand |-> TRUE]>>}
WithExecOptsInputs ==
    {<<>>,
     <<ZeroWithExecOpts>>,
     <<[ZeroWithExecOpts EXCEPT !.SkipEntrypoint = TRUE, !.Stdin = "in"],
       [ZeroWithExecOpts EXCEPT !.Stdin = "other", !.InsecureRootCapabilities = TRUE]>>}
IdLists == {<<>>, <<"id2", "id1">>}
\* the endpoint answers, or fails the k-th request of the call, or the
\* context of the call is done and its first request fails
Answering(id, ids) ==
    [fail |-> 0, err |-> "", nilJSON |-> "panic", id |-> id, str |-> "out", ids |-> ids]
Failing(k) == [Answering("id1", <<>>) EXCEPT !.fail = k, !.err = "exit code: 1"]
Endpoints ==
    {Answering("id1", <<>>),
     [Answering("id2", <<"id2", "id1">>) EXCEPT !.nilJSON = "null"],
     Failing(1), Failing(2),
     [Failing(1) EXCEPT !.err = "context canceled"]}

\* the handles of type T, by address
Handles(T) == {r \in 1..Len(heap) : heap[r].typ = T}
\* a handle of type T or the nil pointer
Pointers(T) == Handles(T) \cup {0}
\* the lists of pointers a caller passes
PointerLists(T) ==
    {<<>>, <<0>>} \cup {<<p, 0>> : p \in Handles(T)}
AsTarballOptsInputs ==
    {<<>>, <<[ZeroAsTarballOpts EXCEPT !.MediaTypes = "OCIMediaTypes"]>>}
        \cup {<<[ZeroAsTarballOpts EXCEPT !.PlatformVariants = <<p>>]>> :
                 p \in Pointers("Container")}

\* no run of the workflow
NoRun == [pc |-> "none"]

NoCall ==
    [op |-> "", recv |-> 0, in |-> <<>>, ret |-> 0, val |-> <<>>, list |-> <<>>,
     isList |-> FALSE, err |-> "", execErr |-> "", resp |-> <<>>,
     panic |-> "", panicArg |-> "", sent |-> <<>>]

\* the serve queries among the requests of a call that the endpoint has
\* answered: all of them, but the last one of a call that failed
RECURSIVE ServeQueries(_)
ServeQueries(sent) ==
    IF sent = <<>> THEN 0
    ELSE (IF Head(sent).query[Len(Head(sent).query)].name = "serve" THEN 1 ELSE 0)
             + ServeQueries(Tail(sent))
Answered(res) ==
    IF res.execErr = "" THEN res.sent ELSE SubSeq(res.sent, 1, Len(res.sent) - 1)

\* the call op on r with the inputs in, made once the last call has
\* returned, did res
Call(op, r, in, res) ==
    /\ last = NoCall
    /\ Len(res.heap) <= MaxHandles
    /\ served + ServeQueries(Answered(res)) <= MaxServed
    /\ heap' = res.heap
    /\ served' = served + ServeQueries(Answered(res))
    /\ last' = [op |-> op, recv |-> r, in |-> in, ret |-> res.ret, val |-> res.val,
                list |-> res.list, isList |-> res.isList, err |-> res.err,
                execErr |-> res.execErr, resp |-> res.resp, panic |-> res.panic,
                panicArg |-> res.panicArg, sent |-> res.sent]
    /\ UNCHANGED <<errVars, ci>>

\* the state after dagger.Connect: the root Client, with an empty query
Init ==
    /\ heap = <<NewHandle("Client", Query, "c1")>>
    /\ last = NoCall
    /\ served = 0
    /\ ci = NoRun
    /\ input = PlainError(<<"m">>)
    /\ impl = 0
    /\ out = NotCalled
    /\ text = <<>>
    /\ got = NoResult

CallLoadFromID ==
    \E r \in Handles("Client"), in \in LoadInputs :
        Call("LoadFromID", r, [T |-> in[1], id |-> in[2]], LoadFromID(heap, r, in[1], in[2]))

CallClientContainer ==
    \E r \in Handles("Client"), opts \in ContainerOptsInputs :
        Call("Container", r, [opts |-> opts], ClientContainer(heap, r, opts))

CallFrom ==
    \E r \in Handles("Container") :
        Call("From", r, [address |-> "alpine"], From(heap, r, "alpine"))

CallWithEnvVariable ==
    \E r \in Handles("Container"), opts \in WithEnvVariableOptsInputs :
        Call("WithEnvVariable", r, [name |-> "K", value |-> "v", opts |-> opts],
             WithEnvVariable(heap, r, "K", "v", opts))

CallWithExec ==
    \E r \in Handles("Container"), opts \in WithExecOptsInputs :
        Call("WithExec", r, [args |-> <<"ls">>, opts |-> opts],
             WithExec(heap, r, <<"ls">>, opts))

CallAsTarball ==
    \E r \in Handles("Container"), opts \in AsTarballOptsInputs :
        Call("AsTarball", r, [opts |-> opts], AsTarball(heap, r, opts))

CallWithDirectory ==
    \E r \in Handles("Container"), d \in Pointers("Directory") :
        Call("WithDirectory", r, [directory |-> d], WithDirectory(heap, r, "/d", d, <<>>))

CallWithFile ==
    \E r \in Handles("Container"), f \in Pointers("File") :
        Call("WithFile", r, [source |-> f], WithFile(heap, r, "/f", f, <<>>))

CallWithFiles ==
    \E r \in Handles("Container"), fs \in PointerLists("File") :
        Call("WithFiles", r, [sources |-> fs], WithFiles(heap, r, "/fs", fs, <<>>))

PipelineOptsInputs == {<<>>, <<[ZeroPipelineOpts EXCEPT !.Description = "d"]>>}

CallPipeline ==
    \E r \in Handles("Client"), opts \in PipelineOptsInputs :
        Call("Pipeline", r, [name |-> "p", opts |-> opts], Pipeline(heap, r, "p", opts))

CallModule ==
    \E r \in Handles("Client") :
        Call("Module", r, <<>>, ClientModule(heap, r))

CallServe ==
    \E r \in Handles("Module"), srv \in Endpoints :
        Call("Serve", r, <<>>, Serve(heap, r, srv))

CallID ==
    \E r \in 1..Len(heap), srv \in Endpoints :
        /\ heap[r].typ # "Client"
        /\ Call("ID", r, <<>>, ID(heap, r, srv))

CallStdout ==
    \E r \in Handles("Container"), srv \in Endpoints :
        Call("Stdout", r, <<>>, Stdout(heap, r, srv))

CallSync ==
    \E r \in Handles("Container"), srv \in Endpoints :
        Call("Sync", r, <<>>, Sync(heap, r, srv))

CallEnvVariables ==
    \E r \in Handles("Container"), srv \in Endpoints :
        Call("EnvVariables", r, <<>>, EnvVariables(heap, r, srv))

CallXXX_GraphQLID ==
    \E r \in 1..Len(heap), srv \in Endpoints :
        /\ heap[r].typ # "Client"
        /\ Call("XXX_GraphQLID", r, <<>>, XXX_GraphQLID(heap, r, srv))

CallMarshalJSON ==
    \E r \in 1..Len(heap), srv \in Endpoints :
        /\ heap[r].typ # "Client"
        /\ Call("MarshalJSON", r, <<>>, MarshalJSONBytes(heap, r, srv))

CallCurrentTypeDefs ==
    \E r \in Handles("Client"), srv \in Endpoints :
        Call("CurrentTypeDefs", r, <<>>, CurrentTypeDefs(heap, r, srv))

\* the last call returns to its caller
CallReturns ==
    /\ last # NoCall
    /\ last' = NoCall
    /\ UNCHANGED <<heap, served, ci, input, impl, out, text, got>>

\* calls whose arguments are plain values
Next ==
    \/ CallReturns
    \/ CallLoadFromID
    \/ CallClientContainer
    \/ CallFrom
    \/ CallWithEnvVariable
    \/ CallWithExec
    \/ CallID
    \/ CallStdout
    \/ CallSync
    \/ CallEnvVariables

Spec == Init /\ [][Next]_vars

\* calls that take options
NextOpts ==
    \/ CallReturns
    \/ CallClientContainer
    \/ CallWithEnvVariable
    \/ CallWithExec
    \/ CallAsTarball
    \/ CallStdout

SpecOpts == Init /\ [][NextOpts]_vars

\* calls that take handles as arguments
NextArgs ==
    \/ CallReturns
    \/ CallLoadFromID
    \/ CallClientContainer
    \/ CallAsTarball
    \/ CallWithDirectory
    \/ CallWithFile
    \/ CallWithFiles
    \/ CallID
    \/ CallStdout

SpecArgs == Init /\ [][NextArgs]_vars

\* calls on the session: sub-pipelines, modules, lists of handles, ids
NextSession ==
    \/ CallReturns
    \/ CallPipeline
    \/ CallModule
    \/ CallServe
    \/ CallCurrentTypeDefs
    \/ CallID
    \/ CallXXX_GraphQLID
    \/ CallMarshalJSON

SpecSession == Init /\ [][NextSession]_vars

\* two sessions, each with its root Client and its transport
InitClients ==
    /\ heap = <<NewHandle("Client", Query, "c1"), NewHandle("Client", Query, "c2")>>
    /\ last = NoCall
    /\ served = 0
    /\ ci = NoRun
    /\ input = PlainError(<<"m">>)
    /\ impl = 0
    /\ out = NotCalled
    /\ text = <<>>
    /\ got = NoResult

\* calls on the handles of two sessions
NextClients ==
    \/ CallReturns
    \/ CallPipeline
    \/ CallClientContainer
    \/ CallFrom
    \/ CallCurrentTypeDefs
    \/ CallID
    \/ CallStdout

SpecClients == InitClients /\ [][NextClients]_vars

\* getCustomError and ExecError.Error applied to each error of Errors
InitErrors ==
    /\ InitErr
    /\ heap = <<NewHandle("Client", Query, "c1")>>
    /\ last = NoCall
    /\ served = 0
    /\ ci = NoRun

NextErr ==
    \/ CallGetCustomError /\ UNCHANGED <<hVars, ci>>
    \/ CallError /\ UNCHANGED <<hVars, ci>>
    \/ CallMessage /\ UNCHANGED <<hVars, ci>>
    \/ CallUnwrap /\ UNCHANGED <<hVars, ci>>

SpecErr == InitErrors /\ [][NextErr]_vars

(***************************************************************************)
(* The needs/changelog workflow (.github/workflows): one run of the job    *)
(* check-for-changelog for one pull_request event.  A path is the sequence *)
(* of its components.  A step's outcome is "success", "failure" or         *)
(* "skipped"; a step without an if: runs only when no step before it has   *)
(* failed.                                                                 *)
(***************************************************************************)
EventActions == {"opened", "synchronize", "labeled", "unlabeled"}
Labels == {"needs/changelog", "kind/bug"}
Paths ==
    {<<".changes", "unreleased", "a.yaml">>,
     <<"sdk", "go", ".changes", "unreleased", "b.yaml">>,
     <<"README.md">>}

\* the pathspec **/.changes/unreleased: the path lies under a directory
\* unreleased of a directory .changes, at any depth
UnderUnreleased(path) ==
    \E i \in 1..(Len(path) - 2) : path[i] = ".changes" /\ path[i + 1] = "unreleased"

\* git diff --name-only base...head -- **/.changes/unreleased
GitDiff(changed) == {path \in changed : UnderUnreleased(path)}

\* success(): the implicit condition of a step
Success(steps) == \A k \in DOMAIN steps : steps[k] # "failure"

\* the event has been delivered and no step has run
Triggered(action, labels, changed) ==
    [pc |-> "job", action |-> action, labels |-> labels, changed |-> changed,
     steps |-> <<>>, verdict |-> "", comment |-> FALSE]

InitCI ==
    /\ ci \in {Triggered(a, l, c) : a \in EventActions, l \in SUBSET Labels,
                                     c \in SUBSET Paths}
    /\ heap = <<NewHandle("Client", Query, "c1")>>
    /\ last = NoCall
    /\ served = 0
    /\ input = PlainError(<<"m">>)
    /\ impl = 0
    /\ out = NotCalled
    /\ text = <<>>
    /\ got = NoResult

\* if: contains(github.event.pull_request.labels.*.name, 'needs/changelog')
JobCondition ==
    /\ ci.pc = "job"
    /\ ci' = [ci EXCEPT !.pc = IF "needs/changelog" \in ci.labels
                                THEN "checkout" ELSE "done"]

\* a step that runs a command, which succeeds or fails
RunStep(pc, next) ==
    /\ ci.pc = pc
    /\ \E outcome \in {"success", "failure"} :
          ci' = [ci EXCEPT !.pc = next,
                           !.steps = Append(@, IF Success(ci.steps) THEN outcome
                                               ELSE "skipped")]

\* uses: actions/checkout@v4
Checkout == RunStep("checkout", "fetch")

\* Fetch refs: the two git fetch
FetchRefs == RunStep("fetch", "check")

\* Check if PR needs a changelog (id: check)
Check ==
    /\ ci.pc = "check"
    /\ \E diffReturn \in {0, 128} :
          LET diff == GitDiff(ci.changed)
              ran == Success(ci.steps)
              outcome == IF ~ran THEN "skipped"
                         ELSE IF diffReturn # 0 THEN "failure"
                         ELSE IF diff = {} THEN "failure"
                         ELSE "success"
              verdict == IF ~ran \/ diffReturn # 0 THEN ""
                         ELSE IF diff = {} THEN "Changelog is required, but was not created."
                         ELSE "Changelog exists."
          IN ci' = [ci EXCEPT !.pc = "comment", !.steps = Append(@, outcome),
                              !.verdict = verdict]

\* Add comment: if: always() && github.event.action == 'labeled' &&
\* steps.check.outcome != 'success'
AddComment ==
    /\ ci.pc = "comment"
    /\ LET runs == ci.action = "labeled" /\ ci.steps[3] # "success"
       IN ci' = [ci EXCEPT !.pc = "done", !.comment = runs,
                           !.steps = Append(@, IF runs THEN "success" ELSE "skipped")]

NextCI ==
    \/ JobCondition /\ UNCHANGED <<errVars, hVars>>
    \/ Checkout /\ UNCHANGED <<errVars, hVars>>
    \/ FetchRefs /\ UNCHANGED <<errVars, hVars>>
    \/ Check /\ UNCHANGED <<errVars, hVars>>
    \/ AddComment /\ UNCHANGED <<errVars, hVars>>

SpecCI == InitCI /\ [][NextCI]_vars

(***************************************************************************)
(* Properties of the error classification, under SpecErr.                  *)
(***************************************************************************)
\* the GraphQL error errors.As finds in the input: the outermost one
HasGql == \E i \in DOMAIN input : input[i].gql
GqlExt ==
    LET i == CHOOSE k \in DOMAIN input :
                 input[k].gql /\ \A j \in DOMAIN input : input[j].gql => k <= j
    IN input[i].ext
Classified == out.kind # "none"
IsExecExt == HasGql /\ GqlExt.type = JStr(<<"EXEC_ERROR">>)
\* the strings of a cmd array whose elements are all strings
CmdStrings(v) == [i \in DOMAIN v.a |-> v.a[i].s]
AllStrings(v) == v.t = "array" /\ \A i \in DOMAIN v.a : v.a[i].t = "string"

\* C2: getCustomError never fails fatally on an EXEC_ERROR extension:
\* whatever exitCode, cmd, stdout and stderr are (missing, of the wrong type,
\* a cmd array with elements of the wrong type), it returns an ExecError,
\* without panicking, in which each malformed field is left at its zero value
\* and each well-formed field is filled in.
C2_MalformedFieldsSkipped ==
    (Classified /\ IsExecExt) =>
        /\ out.kind = "ExecError"
        /\ out.Stdout = IF GqlExt.stdout.t = "string" THEN GqlExt.stdout.s ELSE <<>>
        /\ out.Stderr = IF GqlExt.stderr.t = "string" THEN GqlExt.stderr.s ELSE <<>>
        /\ out.Cmd = IF AllStrings(GqlExt.cmd) THEN CmdStrings(GqlExt.cmd) ELSE <<>>
        /\ (GqlExt.exitCode.t # "number" => out.ExitCode = 0)

\* C3: getCustomError returns nil for every error that neither is nor wraps
\* a GraphQL error, for every GraphQL error whose extensions have no string
\* under "_type", and for every GraphQL error whose "_type" is a string other
\* than "EXEC_ERROR".
C3_PassThrough ==
    (/\ Classified
     /\ \/ ~HasGql
        \/ GqlExt.type.t # "string"
        \/ GqlExt.type.s # <<"EXEC_ERROR">>)
    => out = NilError

\* C3 happens: a wrapped GraphQL error of another type has been classified
C3_Witness ==
    /\ Classified
    /\ Len(input) = 2
    /\ HasGql
    /\ GqlExt.type = JStr(<<"OTHER">>)
    /\ GqlExt.cmd # Missing
    /\ out = NilError

WellFormedExec ==
    /\ IsExecExt
    /\ GqlExt.exitCode.t = "number"
    /\ AllStrings(GqlExt.cmd)
    /\ GqlExt.stdout.t = "string"
    /\ GqlExt.stderr.t = "string"

\* C4 as stated: for an EXEC_ERROR extension with a numeric exitCode, a cmd
\* array of strings and string stdout and stderr, the ExecError's ExitCode,
\* Cmd, Stdout and Stderr equal the extension's values.
C4_FieldsEqualExtension ==
    (Classified /\ WellFormedExec) =>
        /\ out.kind = "ExecError"
        /\ ~GqlExt.exitCode.huge
        /\ 2 * out.ExitCode = GqlExt.exitCode.n
        /\ out.Cmd = CmdStrings(GqlExt.cmd)
        /\ out.Stdout = GqlExt.stdout.s
        /\ out.Stderr = GqlExt.stderr.s

Abs(n) == IF n < 0 THEN -n ELSE n

\* C4 amended: for such an extension the ExecError's Cmd (same elements,
\* same order), Stdout and Stderr equal the extension's values; its ExitCode
\* equals exitCode when exitCode is an integer in the range of int, and is
\* exitCode truncated toward zero when exitCode is in that range and has a
\* fraction.
C4_FieldsFromExtension ==
    (Classified /\ WellFormedExec) =>
        /\ out.kind = "ExecError"
        /\ Len(out.Cmd) = Len(GqlExt.cmd.a)
        /\ \A i \in DOMAIN GqlExt.cmd.a : out.Cmd[i] = GqlExt.cmd.a[i].s
        /\ out.Stdout = GqlExt.stdout.s
        /\ out.Stderr = GqlExt.stderr.s
        /\ (~GqlExt.exitCode.huge /\ GqlExt.exitCode.n % 2 = 0
               => 2 * out.ExitCode = GqlExt.exitCode.n)
        /\ (~GqlExt.exitCode.huge /\ GqlExt.exitCode.n % 2 = 1
               => /\ Abs(2 * out.ExitCode) = Abs(GqlExt.exitCode.n) - 1
                  /\ (GqlExt.exitCode.n < 0 => out.ExitCode <= 0)
                  /\ (GqlExt.exitCode.n > 0 => out.ExitCode >= 0))

\* C4 happens: exit code 1, a command of two words and both streams
C4_Witness ==
    /\ Classified
    /\ WellFormedExec
    /\ GqlExt.exitCode = JNum(2)
    /\ GqlExt.cmd = JArr(<<EStr(<<"a">>), EStr(<<"b">>)>>)
    /\ GqlExt.stdout = JStr(<<"o">>)
    /\ GqlExt.stderr = JStr(<<" ", "o">>)
    /\ out.kind = "ExecError"
    /\ out.ExitCode = 1
    /\ out.Cmd = <<<<"a">>, <<"b">>>>

\* empty or made of white space only
Blank(s) == \A i \in DOMAIN s : s[i] \in {" ", "\t", "\n", "\r"}
ErrorCalled == out.kind = "ExecError" /\ text # <<>>

\* C5: ExecError.Error() is the base message, followed by "\nStdout:\n" and
\* Stdout if and only if Stdout is not blank, followed by "\nStderr:\n" and
\* Stderr if and only if Stderr is not blank: the stdout section comes
\* before the stderr section and a blank stream contributes nothing.
C5_ErrorSections ==
    ErrorCalled =>
        text = input[1].msg
                 \o (IF Blank(out.Stdout) THEN <<>>
                     ELSE <<"\n", "Stdout:", "\n">> \o out.Stdout)
                 \o (IF Blank(out.Stderr) THEN <<>>
                     ELSE <<"\n", "Stderr:", "\n">> \o out.Stderr)

\* C5 happens: a stdout of white space is left out, the stderr is shown
C5_Witness ==
    /\ ErrorCalled
    /\ out.Stdout = <<" ", " ">>
    /\ out.Stderr = <<" ", "o">>
    /\ text = input[1].msg \o <<"\n", "Stderr:", "\n", " ", "o">>

(***************************************************************************)
(* Properties of the handles, under Spec, SpecOpts and SpecArgs.           *)
(***************************************************************************)
Builders ==
    {"LoadFromID", "Container", "From", "WithEnvVariable", "WithExec", "AsTarball",
     "WithDirectory", "WithFile", "WithFiles", "Pipeline", "Module"}
\* the accessors, which return a value and an error
Terminals ==
    {"ID", "Stdout", "Sync", "EnvVariables", "XXX_GraphQLID", "MarshalJSON", "Serve",
     "CurrentTypeDefs"}

\* the last selection of the query of handle h
LastSelection(h) == h.Query[Len(h.Query)]
\* the value bound to the argument name in selection sel, if there is one
Bound(sel, name) == {sel.args[i].value : i \in {j \in DOMAIN sel.args : sel.args[j].name = name}}
\* h is what a load-by-ID of some type makes: its query ends with
\* load<T>FromID(id: x)
IsLoaded(h) ==
    /\ h.Query # <<>>
    /\ LastSelection(h).name = LoadField(h.typ)
    /\ Len(LastSelection(h).args) = 1
    /\ LastSelection(h).args[1].name = "id"
LoadedID(h) == LastSelection(h).args[1].value.ss[1]
IdSelection == [name |-> "id", args |-> <<>>]

\* C1 as stated: reading ID() on the handle returned by LoadTFromID(id)
\* yields id, with a nil error, and sends no request.
C1_LoadThenIDSendsNothing ==
    (last.op = "ID" /\ IsLoaded(heap[last.recv])) =>
        /\ last.val = <<LoadedID(heap[last.recv])>>
        /\ last.err = ""
        /\ last.sent = <<>>

\* C1 amended: LoadTFromID(id) sends no request and returns a handle with
\* no cached id whose query is the receiver's followed by load<T>FromID(id:
\* id); ID() on that handle sends exactly one request, that query followed by
\* the selection id, through the receiver's client, and returns the ID the
\* endpoint answers, or its error; ID() yields the id without a request only
\* on a handle whose id is cached.
C1_LoadThenIDAsksEndpoint ==
    /\ last.op = "LoadFromID" =>
          /\ last.sent = <<>>
          /\ last.ret = Len(heap)
          /\ heap[last.ret].id = <<>>
          /\ heap[last.ret].typ = last.in.T
          /\ heap[last.ret].Client = heap[last.recv].Client
          /\ heap[last.ret].Query =
                 Append(heap[last.recv].Query,
                        [name |-> LoadField(last.in.T),
                         args |-> <<[name |-> "id", value |-> StrV(last.in.id)]>>])
    /\ (last.op = "ID" /\ IsLoaded(heap[last.recv]) /\ heap[last.recv].id = <<>>) =>
          /\ last.sent = <<[query |-> Append(heap[last.recv].Query, IdSelection),
                            client |-> heap[last.recv].Client]>>
          /\ last.panic = ""
          /\ (last.err = "" => Len(last.val) = 1 /\ last.val[1] \in IDs)
          /\ (last.err # "" => last.val = <<>>)
    /\ (last.op = "ID" /\ heap[last.recv].id # <<>>) =>
          /\ last.sent = <<>>
          /\ last.err = ""
          /\ last.val = heap[last.recv].id

\* C1 happens: ID() on the container loaded from "id1" has asked the
\* endpoint, which answered "id2"
C1_Witness ==
    /\ last.op = "ID"
    /\ IsLoaded(heap[last.recv])
    /\ heap[last.recv].typ = "Container"
    /\ LoadedID(heap[last.recv]) = "id1"
    /\ Len(last.sent) = 1
    /\ last.err = ""
    /\ last.val = <<"id2">>

\* the optional arguments of a call: the name in the query, the field of the
\* options struct, the type of the field
OptionalArgs(op) ==
    CASE op = "Container" -> {<<"id", "ID", "string">>, <<"platform", "Platform", "string">>}
      [] op = "WithEnvVariable" -> {<<"expand", "Expand", "bool">>}
      [] op = "WithExec" ->
            {<<"skipEntrypoint", "SkipEntrypoint", "bool">>,
             <<"stdin", "Stdin", "string">>,
             <<"redirectStdout", "RedirectStdout", "string">>,
             <<"redirectStderr", "RedirectStderr", "string">>,
             <<"experimentalPrivilegedNesting", "ExperimentalPrivilegedNesting", "bool">>,
             <<"insecureRootCapabilities", "InsecureRootCapabilities", "bool">>}
      [] op = "AsTarball" ->
            {<<"platformVariants", "PlatformVariants", "list">>,
             <<"forcedCompression", "ForcedCompression", "string">>,
             <<"mediaTypes", "MediaTypes", "string">>}
      [] OTHER -> {}
\* "" / false / nil or empty
Zero(type, v) ==
    CASE type = "string" -> v = ""
      [] type = "bool" -> v = FALSE
      [] type = "list" -> Len(v) = 0
\* some options struct of the last call carries a non-zero value for a
SomeNonZero(a) == \E i \in DOMAIN last.in.opts : ~Zero(a[3], last.in.opts[i][a[2]])

\* C6: an optional argument is attached to the query if and only if some
\* options struct of the call carries a non-zero value for it; an argument
\* that is zero in every options struct, or when there is none, is not in
\* the query.
C6_OptionalArgsAttachedIffSet ==
    (last.op \in {"Container", "WithEnvVariable", "WithExec", "AsTarball"}) =>
        /\ last.ret = Len(heap)
        /\ \A a \in OptionalArgs(last.op) :
               Bound(LastSelection(heap[last.ret]), a[1]) # {} <=> SomeNonZero(a)

\* C6 happens: of two options structs for WithExec the first sets
\* skipEntrypoint and stdin, the second stdin and insecureRootCapabilities,
\* and no other optional argument is in the query
C6_Witness ==
    /\ last.op = "WithExec"
    /\ Len(last.in.opts) = 2
    /\ LET sel == LastSelection(heap[last.ret])
       IN /\ Bound(sel, "stdin") = {StrV("in")}
          /\ Bound(sel, "skipEntrypoint") = {BoolV(TRUE)}
          /\ Bound(sel, "insecureRootCapabilities") = {BoolV(TRUE)}
          /\ Bound(sel, "redirectStdout") = {}
          /\ Len(sel.args) = 4

\* C7: a builder call returns a newly allocated handle and leaves every
\* existing handle as it is: its Query, its Client and its cached fields.
\* Whatever is built from a handle, what is later executed through it is what
\* would have been executed before, and two handles built from one handle do
\* not see each other's selections.
C7_HandlesImmutable ==
    [][/\ \A r \in DOMAIN heap : r \in DOMAIN heap' /\ heap'[r] = heap[r]
       /\ (last' # last /\ last'.op \in Builders /\ last'.ret # 0)
             => last'.ret \notin DOMAIN heap /\ last'.ret \in DOMAIN heap']_vars

IsPrefix(p, q) == Len(p) <= Len(q) /\ SubSeq(q, 1, Len(p)) = p

\* C7 happens: two containers have been built from a container, each with
\* its own selection, and Stdout on the first container has sent its query
\* with neither
C7_Witness ==
    /\ last.op = "Stdout"
    /\ last.err = ""
    /\ \E a, b \in DOMAIN heap :
          /\ a > last.recv /\ b > a
          /\ IsPrefix(heap[last.recv].Query, heap[a].Query)
          /\ IsPrefix(heap[last.recv].Query, heap[b].Query)
          /\ Len(heap[a].Query) = Len(heap[last.recv].Query) + 1
          /\ Len(heap[b].Query) = Len(heap[last.recv].Query) + 1
          /\ heap[a].Query # heap[b].Query
    /\ last.sent = <<[query |-> Append(heap[last.recv].Query,
                                       [name |-> "stdout", args |-> <<>>]),
                      client |-> heap[last.recv].Client]>>
    /\ Len(heap[last.recv].Query) = 1

\* the handle arguments of the queries of the heap: the values of kind
\* "handle" and "handles" bound in some selection of some handle
Selections == UNION {{heap[r].Query[k] : k \in DOMAIN heap[r].Query} : r \in DOMAIN heap}
ArgValues == UNION {{sel.args[j].value : j \in DOMAIN sel.args} : sel \in Selections}
HandleArgs == {v \in ArgValues : v.kind \in {"handle", "handles"}}

\* C8: no query is ever built with a nil object-handle argument, be it a
\* single handle, an element of a list of handles or a handle inside the
\* options; a nil required handle makes the method panic with "unexpected nil
\* pointer for argument", naming the argument, before any field is selected
\* or any request is sent.
C8_NoNilHandleInQuery ==
    /\ \A v \in HandleArgs : \A i \in DOMAIN v.refs : v.refs[i] # 0
    /\ (last.op = "WithDirectory" /\ last.in.directory = 0) =>
          /\ last.panic = "unexpected nil pointer for argument"
          /\ last.panicArg = "directory"
          /\ last.ret = 0
          /\ last.sent = <<>>
    /\ (last.op = "WithFile" /\ last.in.source = 0) =>
          /\ last.panic = "unexpected nil pointer for argument"
          /\ last.panicArg = "source"
          /\ last.ret = 0
          /\ last.sent = <<>>

\* C9: no request is sent to the endpoint by a method that returns a handle
\* (the builder methods, Load*FromID); requests are sent only by the terminal
\* accessors, which take a context and return a value and an error.
C9_OnlyTerminalsSend ==
    /\ last.op \in Builders => last.sent = <<>>
    /\ last.sent # <<>> => last.op \in Terminals

\* C9 happens: a container has been built by three calls without a request,
\* and Stdout on it has sent the one request that carries all of them
C9_Witness ==
    /\ last.op = "Stdout"
    /\ last.err = ""
    /\ Len(heap[last.recv].Query) = 3
    /\ heap[last.recv].Query[3].name = "withExec"
    /\ last.sent = <<[query |-> Append(heap[last.recv].Query,
                                       [name |-> "stdout", args |-> <<>>]),
                      client |-> heap[last.recv].Client]>>

\* the last call ran a query: it was an accessor whose result was not cached
RanQuery ==
    /\ last.op \in Terminals
    /\ last.op \in {"ID", "XXX_GraphQLID", "MarshalJSON"} => heap[last.recv].id = <<>>
    /\ last.op = "Stdout" => heap[last.recv].stdout = <<>>
    /\ last.op = "Serve" => heap[last.recv].serve = <<>>

\* C10 as stated: every invocation of a terminal accessor whose result is
\* not cached sends exactly one request, whatever its query contains.
C10_OneRequestPerAccessor ==
    (RanQuery /\ last.panic = "") => Len(last.sent) = 1

\* the handles of q that are not nil and have no cached id, each with those
\* of its own query: the ids the endpoint has to be asked for
RECURSIVE UnknownIDs(_)
UnknownIDs(q) ==
    LET refs == HandleRefs(q)
        RECURSIVE Sum(_)
        Sum(i) ==
            IF i > Len(refs) THEN 0
            ELSE (IF refs[i] # 0 /\ heap[refs[i]].id = <<>>
                  THEN 1 + UnknownIDs(heap[refs[i]].Query) ELSE 0) + Sum(i + 1)
    IN Sum(1)

\* C10 amended: an invocation of a terminal accessor whose result is not
\* cached, and that returns without error, has sent one request for its own
\* query, the last one, after one ID request for each object-handle argument
\* of the query that is not nil and whose id is not cached, and so on for the
\* handle arguments of the queries of those handles; it sends exactly one
\* request when its query carries no such argument.  An invocation that
\* returns an error has sent at least one request and no more than that.
C10_OneRequestPlusUnknownIDs ==
    (RanQuery /\ last.panic = "") =>
        LET n == UnknownIDs(heap[last.recv].Query)
        IN /\ last.err = "" =>
                 /\ Len(last.sent) = 1 + n
                 /\ IsPrefix(heap[last.recv].Query, last.sent[Len(last.sent)].query)
                 /\ \A i \in 1..n :
                        last.sent[i].query[Len(last.sent[i].query)] = IdSelection
           /\ last.err # "" => Len(last.sent) \in 1..(1 + n)
           /\ HandleRefs(heap[last.recv].Query) = <<>> => Len(last.sent) = 1

\* C10 happens: Stdout on a container built with WithFile from a file whose
\* id is not known has sent two requests, the first for the id of the file
C10_Witness ==
    /\ last.op = "Stdout"
    /\ last.err = ""
    /\ LastSelection(heap[last.recv]).name = "withFile"
    /\ Len(last.sent) = 2
    /\ \E f \in DOMAIN heap :
          /\ heap[f].typ = "File"
          /\ heap[f].id = <<>>
          /\ Bound(LastSelection(heap[last.recv]), "source") = {HandleV(f)}
          /\ last.sent[1].query = Append(heap[f].Query, IdSelection)

\* the selections an accessor adds to the query of its receiver
AccessorSelections(op) ==
    CASE op \in {"ID", "XXX_GraphQLID", "MarshalJSON"} -> <<IdSelection>>
      [] op = "Serve" -> <<[name |-> "serve", args |-> <<>>]>>
      [] op = "CurrentTypeDefs" -> <<[name |-> "currentTypeDefs", args |-> <<>>], IdSelection>>
      [] op = "Stdout" -> <<[name |-> "stdout", args |-> <<>>]>>
      [] op = "Sync" -> <<[name |-> "sync", args |-> <<>>]>>
      [] op = "EnvVariables" -> <<[name |-> "envVariables", args |-> <<>>], IdSelection>>
\* the query the last call, of an accessor, executes
OwnQuery == heap[last.recv].Query \o AccessorSelections(last.op)

\* C11: errors are neither retried nor swallowed.  When the execution of the
\* query of a terminal accessor fails, the accessor returns the error that
\* Execute returned, as it is, with no value; its query has been sent once
\* at most, as the last request, and nothing is sent again after the
\* failure; a list accessor returns the nil list and no handle, Sync returns
\* the error together with its receiver.
C11_ErrorsPropagate ==
    (last.op \in Terminals /\ last.panic = "") =>
        /\ last.err = last.execErr
        /\ last.execErr # "" =>
              /\ last.val = <<>>
              /\ last.list = <<>>
              /\ ~last.isList
              /\ last.ret = IF last.op = "Sync" THEN last.recv ELSE 0
              /\ Len(last.sent) \in 1..(1 + UnknownIDs(heap[last.recv].Query))
              /\ \A i \in DOMAIN last.sent :
                     last.sent[i].query = OwnQuery => i = Len(last.sent)

\* C11 happens: the one request of EnvVariables has failed on a context
\* that was cancelled, and EnvVariables returned that error and the nil list
C11_Witness ==
    /\ last.op = "EnvVariables"
    /\ last.err = "context canceled"
    /\ last.sent = <<[query |-> OwnQuery, client |-> heap[last.recv].Client]>>
    /\ last.list = <<>>
    /\ ~last.isList

\* the builders whose arguments are plain values, with the field each
\* selects and the required arguments it binds
PlainBuilders == {"LoadFromID", "Container", "From", "WithEnvVariable", "WithExec"}
BuilderField(op, in) ==
    CASE op = "LoadFromID" -> LoadField(in.T)
      [] op = "Container" -> "container"
      [] op = "From" -> "from"
      [] op = "WithEnvVariable" -> "withEnvVariable"
      [] op = "WithExec" -> "withExec"
RequiredArgs(op, in) ==
    CASE op = "LoadFromID" -> {<<"id", StrV(in.id)>>}
      [] op = "Container" -> {}
      [] op = "From" -> {<<"address", StrV(in.address)>>}
      [] op = "WithEnvVariable" -> {<<"name", StrV(in.name)>>, <<"value", StrV(in.value)>>}
      [] op = "WithExec" -> {<<"args", StrListV(in.args)>>}
\* the names of the arguments the last call, of a builder, has to bind
ExpectedArgNames ==
    {a[1] : a \in RequiredArgs(last.op, last.in)}
        \cup {a[1] : a \in {b \in OptionalArgs(last.op) : SomeNonZero(b)}}
\* the handle the last call returned holds the query of the receiver
\* followed by one selection, of the call's field with the call's arguments
OneSelectionAdded ==
    /\ last.ret = Len(heap)
    /\ LET sel == LastSelection(heap[last.ret])
       IN /\ heap[last.ret].Query = Append(heap[last.recv].Query, sel)
          /\ sel.name = BuilderField(last.op, last.in)
          /\ {sel.args[j].name : j \in DOMAIN sel.args} = ExpectedArgNames
          /\ Len(sel.args) = Cardinality(ExpectedArgNames)
          /\ \A a \in RequiredArgs(last.op, last.in) : Bound(sel, a[1]) = {a[2]}
\* the one field an accessor is named after
AccessorField(op) ==
    CASE op = "ID" -> "id"
      [] op = "Stdout" -> "stdout"
      [] op = "Sync" -> "sync"
      [] op = "EnvVariables" -> "envVariables"

\* C12 as stated: each builder call returns a handle whose query is the
\* receiver's followed by exactly one selection, of the call's field with
\* its required and its non-zero optional arguments; each accessor call
\* executes the receiver's query followed by exactly one selection, of the
\* accessor's field, and returns on success the value bound from the
\* response with a nil error.
C12_OneSelectionPerCall ==
    /\ (last.op \in PlainBuilders) => OneSelectionAdded
    /\ (last.op \in Terminals /\ last.panic = "") =>
          /\ last.sent # <<>>
          /\ last.sent[Len(last.sent)].query =
                 Append(heap[last.recv].Query,
                        [name |-> AccessorField(last.op), args |-> <<>>])
          /\ (last.err = "" /\ last.op \in {"ID", "Stdout"}) => last.val = last.resp

\* C12 amended: each builder call returns a handle whose query is the
\* receiver's followed by exactly one selection, of the call's field with
\* its required and its non-zero optional arguments.  An accessor whose
\* result is not cached executes the receiver's query followed by the
\* selection of its field, which a list accessor follows by the selection
\* id: the last request it sends carries that query, through the receiver's
\* client; on success a scalar accessor returns the value bound from the
\* response, with a nil error.  An accessor whose result is cached (ID on a
\* handle with an id) executes nothing.
C12_SelectionsInCallOrder ==
    /\ (last.op \in PlainBuilders) => OneSelectionAdded
    /\ (RanQuery /\ last.panic = "") =>
          /\ last.sent # <<>>
          /\ last.sent[Len(last.sent)] =
                 [query |-> OwnQuery, client |-> heap[last.recv].Client]
          /\ Len(OwnQuery) =
                 Len(heap[last.recv].Query) + (IF last.op = "EnvVariables" THEN 2 ELSE 1)
          /\ (last.err = "" /\ last.op \in {"ID", "Stdout"}) =>
                 (last.val = last.resp /\ Len(last.val) = 1)
    /\ (last.op \in Terminals /\ ~RanQuery) =>
          (last.sent = <<>> /\ last.err = "" /\ last.panic = "")

\* C12 happens: EnvVariables on a container built by Container, From and
\* WithEnvVariable has sent those three selections in call order, followed
\* by envVariables and id
C12_Witness ==
    /\ last.op = "EnvVariables"
    /\ last.err = ""
    /\ Len(last.sent) = 1
    /\ LET q == last.sent[1].query
       IN /\ Len(q) = 5
          /\ q[1].name = "container"
          /\ q[2].name = "from"
          /\ Bound(q[2], "address") = {StrV("alpine")}
          /\ q[3].name = "withEnvVariable"
          /\ Bound(q[3], "name") = {StrV("K")}
          /\ Bound(q[3], "value") = {StrV("v")}
          /\ Bound(q[3], "expand") = {BoolV(TRUE)}
          /\ q[4] = [name |-> "envVariables", args |-> <<>>]
          /\ q[5] = IdSelection

(***************************************************************************)
(* Properties of a session, under SpecSession.                             *)
(***************************************************************************)
\* C13: over any sequence of operations on one session, at most one serve
\* query is executed, however many times Serve is called on a module handle.
C13_ServeOncePerSession == served <= 1

\* the handles whose id is cached
WithID == {r \in DOMAIN heap : heap[r].id # <<>>}
\* the call returned v with a nil error and sent no request
Cached(res, v) ==
    /\ res.val = <<v>>
    /\ res.err = ""
    /\ res.panic = ""
    /\ res.sent = <<>>

\* C15: on a handle whose id is cached, ID() returns that id, XXX_GraphQLID()
\* its characters as a string and MarshalJSON() the id as a JSON string, each
\* with a nil error and without a request: on every call that is made, and
\* (the handle being left as it is) on any call that could be made next,
\* whatever the endpoint would answer and whether or not the context is
\* done.
C15_CachedIDNoRequest ==
    /\ (last.op \in {"ID", "XXX_GraphQLID"} /\ last.recv \in WithID) =>
          Cached(last, heap[last.recv].id[1])
    /\ (last.op = "MarshalJSON" /\ last.recv \in WithID) =>
          Cached(last, <<"\"", heap[last.recv].id[1], "\"">>)
    /\ \A r \in WithID, srv \in Endpoints :
          /\ Cached(ID(heap, r, srv), heap[r].id[1])
          /\ Cached(XXX_GraphQLID(heap, r, srv), heap[r].id[1])
          /\ Cached(MarshalJSONBytes(heap, r, srv), <<"\"", heap[r].id[1], "\"">>)

\* C15 happens: MarshalJSON on the second TypeDef of a list has returned
\* its id, "id1", in quotes, without a request
C15_Witness ==
    /\ last.op = "MarshalJSON"
    /\ heap[last.recv].typ = "TypeDef"
    /\ heap[last.recv].id = <<"id1">>
    /\ last.val = << <<"\"", "id1", "\"">> >>
    /\ last.err = ""
    /\ last.sent = <<>>

\* the accessors that return a list of handles, and the type of the handles
ListAccessors == {"EnvVariables", "CurrentTypeDefs"}
ElementType(op) == IF op = "EnvVariables" THEN "EnvVariable" ELSE "TypeDef"
\* the last call is a list accessor that succeeded
ListReturned == last.op \in ListAccessors /\ last.err = "" /\ last.panic = ""

\* C16: a list accessor that succeeds returns a list that is not nil, of one
\* newly made handle per ID of the response, in the order of the response,
\* each of the element type and with the corresponding ID as its cached id,
\* so that ID() on the i-th element returns the i-th ID without a request;
\* the list is empty, and not nil, when the response is.
C16_ListOfCachedHandles ==
    ListReturned =>
        /\ last.isList
        /\ Len(last.resp) = 1
        /\ LET ids == last.resp[1]
           IN /\ Len(last.list) = Len(ids)
              /\ \A i \in DOMAIN ids :
                    /\ last.list[i] = Len(heap) - Len(ids) + i
                    /\ heap[last.list[i]].typ = ElementType(last.op)
                    /\ heap[last.list[i]].id = <<ids[i]>>
                    /\ \A srv \in Endpoints : Cached(ID(heap, last.list[i], srv), ids[i])

\* C16 happens: EnvVariables has returned two handles for the response
\* "id2", "id1", the first with the id "id2" and the second with "id1"
C16_Witness ==
    /\ last.op = "EnvVariables"
    /\ last.resp = << <<"id2", "id1">> >>
    /\ Len(last.list) = 2
    /\ heap[last.list[1]].id = <<"id2">>
    /\ heap[last.list[2]].id = <<"id1">>
    /\ last.sent # <<>>


\* C17: the handles a list accessor returns are rooted at a fresh query:
\* the query of each is the single selection load<T>FromID(id: its id), with
\* none of the selections of the receiver (no enclosing pipeline), and the
\* Client of each is the Client of the receiver.
C17_ListHandlesRootedAfresh ==
    ListReturned =>
        \A i \in DOMAIN last.list :
            LET h == heap[last.list[i]]
            IN /\ h.Query =
                      <<[name |-> LoadField(ElementType(last.op)),
                         args |-> <<[name |-> "id", value |-> StrV(last.resp[1][i])]>>]>>
               /\ h.Client = heap[last.recv].Client

\* C17 happens: CurrentTypeDefs on the client of a sub-pipeline has returned
\* two handles, whose queries hold no pipeline selection
C17_Witness ==
    /\ last.op = "CurrentTypeDefs"
    /\ Len(last.list) = 2
    /\ heap[last.recv].Query # <<>>
    /\ heap[last.recv].Query[1].name = "pipeline"
    /\ last.sent[1].query[1].name = "pipeline"
    /\ \A i \in DOMAIN last.list :
          \A k \in DOMAIN heap[last.list[i]].Query :
              heap[last.list[i]].Query[k].name = "loadTypeDefFromID"


\* C18: Sync returns its receiver, that very handle, on success and on
\* failure alike: no handle is made and none is changed (the query of the
\* receiver is not extended by the selection sync), the handle returned is
\* not nil also when the error is not, and every call sends a request for
\* the receiver's query followed by sync, nothing being cached.
C18_SyncReturnsReceiver ==
    [][(last' # last /\ last'.op = "Sync" /\ last'.panic = "") =>
          /\ heap' = heap
          /\ last'.ret = last'.recv
          /\ last'.ret \in DOMAIN heap
          /\ last'.err \in {"", last'.execErr}
          /\ last'.sent # <<>>
          /\ last'.sent[Len(last'.sent)].query =
                 Append(heap[last'.recv].Query, [name |-> "sync", args |-> <<>>])]_vars

\* C18 happens: Sync on a container built by From has failed, and returned
\* that container with the error
C18_Witness ==
    /\ last.op = "Sync"
    /\ heap[last.recv].typ = "Container"
    /\ last.err # ""
    /\ last.ret = last.recv
    /\ Len(last.sent) = 1
    /\ LastSelection(heap[last.recv]).name = "from"


\* the calls that take options structs
WithOptions == {"Container", "WithEnvVariable", "WithExec", "AsTarball"}
\* the value the code binds for a field of an options struct
TypedValue(type, v) ==
    CASE type = "string" -> StrV(v)
      [] type = "bool" -> BoolV(v)
      [] type = "list" -> HandleListV(v)
\* the first options struct of the last call that sets the argument a
FirstSetting(a) ==
    CHOOSE k \in DOMAIN last.in.opts :
        /\ ~Zero(a[3], last.in.opts[k][a[2]])
        /\ \A j \in 1..(k - 1) : Zero(a[3], last.in.opts[j][a[2]])
\* how many times the argument name is bound in the selection sel
Occurrences(sel, name) == Cardinality({j \in DOMAIN sel.args : sel.args[j].name = name})

C21_SameTransport ==
    [][(last' # last /\ last'.op # "") =>
          /\ \A r \in DOMAIN heap' \ DOMAIN heap :
                heap'[r].Client = heap[last'.recv].Client
          /\ \A r \in DOMAIN heap : r \in DOMAIN heap' /\ heap'[r].Client = heap[r].Client
          /\ \A i \in DOMAIN last'.sent :
                last'.sent[i].client = heap[last'.recv].Client]_vars

\* C21 happens: of two sessions, the second has made a sub-pipeline and a
\* container in it, and Stdout on the container has sent its request through
\* the transport of the second session
C21_Witness ==
    /\ last.op = "Stdout"
    /\ heap[1].Client = "c1"
    /\ heap[last.recv].Client = "c2"
    /\ Len(heap[last.recv].Query) = 2
    /\ heap[last.recv].Query[1].name = "pipeline"
    /\ heap[last.recv].Query[2].name = "container"
    /\ Len(last.sent) = 1
    /\ last.sent[1].client = "c2"


(***************************************************************************)
(* Properties of the needs/changelog workflow, under SpecCI.               *)
(***************************************************************************)
\* C14: whenever the workflow has posted its comment, what the comment says
\* is true: the pull request carries the label needs/changelog, and the
\* check step ran and found that the diff between base and head touches no
\* path under a .changes/unreleased directory.  The comment is not posted
\* when the check step was skipped or failed before its verdict.
C14_CommentOnlyAfterVerdict ==
    (ci.pc = "done" /\ ci.comment) =>
        /\ "needs/changelog" \in ci.labels
        /\ ci.steps[3] = "failure"
        /\ ci.verdict = "Changelog is required, but was not created."
        /\ \A path \in ci.changed : ~UnderUnreleased(path)

(***************************************************************************)
(* The ExecError and the error it was made from, under SpecErr.            *)
(***************************************************************************)
\* C22: an ExecError made by getCustomError(err) wraps err: Unwrap() returns
\* err itself, the outermost error, also when the GraphQL error was found
\* wrapped inside it; Message() is err.Error(), with nothing added (no
\* header of a Stdout or Stderr section when err.Error() has none); and
\* Error() begins with Message().
C22_WrapsOriginal ==
    out.kind = "ExecError" =>
        /\ got.method = "Unwrap" => got.err = input
        /\ got.method = "Message" =>
              /\ got.str = ErrorString(input)
              /\ \A i \in DOMAIN got.str : got.str[i] \notin {"Stdout:", "Stderr:"}
              /\ IsPrefix(got.str, Error(out))
        /\ text # <<>> => IsPrefix(Message(out), text)

\* C22 happens: Unwrap on the ExecError made from an error that wraps a
\* GraphQL error with a stdout has returned the wrapping error
C22_Witness ==
    /\ out.kind = "ExecError"
    /\ got.method = "Unwrap"
    /\ Len(input) = 2
    /\ input[2].gql
    /\ ~input[1].gql
    /\ got.err = input
    /\ TrimSpace(out.Stdout) # <<>>
====
